---- MODULE Spec2Model ----
(***************************************************************************)
(* A model of the wireframe-cube engine (src/src/main.rs, src/src/cube.rs). *)
(*                                                                         *)
(* Numbers.  The program computes in f32.  The model computes in exact     *)
(* rationals extended with the three IEEE non-finite values: a value is a  *)
(* record [n, d] in lowest terms with d > 0, or d = 0 for +inf (n = 1),    *)
(* -inf (n = -1) and NaN (n = 0).  Rounding, overflow to infinity and the  *)
(* sign of zero are not modelled.                                          *)
(***************************************************************************)
EXTENDS Integers, Sequences, FiniteSets, TLC

VARIABLES
    \* ---- main(): the render loop ----
    pc,                 \* position in main: "clear", "poll", "draw", "done"
    screen_size,        \* <<width, height>> of display 0, in pixels
    display_width,      \* main.rs:355
    display_height,     \* main.rs:356
    projection_matrix,  \* main.rs:363
    cube_mesh,          \* main.rs:383
    tri_idx,            \* position of the iterator of main.rs:431 (1-based)
    tri_projected,      \* main.rs:432, the last screen-space triangle
    last_w,             \* main.rs:338, w of the three vertices of that triangle
    draw_color,         \* the canvas's current draw colour
    canvas,             \* draw_line requests received since the last clear
    presented,          \* what the last present() put on the screen
    frames,             \* number of present() calls so far
    last_event,         \* last result of the event poll ("None": queue empty)
    polled,             \* events polled in the current iteration
    \* ---- Mesh::new / Mesh::warn_mesh_size called on arbitrary input ----
    mesh_arg,           \* the Vec<Triangle> handed to the call
    mesh_ret,           \* <<the Mesh returned by Mesh::new>>, <<>> before the call
    warn_ret,           \* <<the Option returned by warn_mesh_size>>, <<>> before
    size_checks,        \* results of the size checks Mesh::new made
    stdout,             \* lines printed to the console
    \* ---- multiply_matrix_vector called on arbitrary input ----
    mv_i,               \* referent of i
    mv_o,               \* referent of o
    mv_m,               \* referent of m
    mv_i0,              \* i as it was when the call was made
    mv_called           \* TRUE once the call has returned

mainVars == <<pc, screen_size, display_width, display_height, projection_matrix,
              cube_mesh, tri_idx, tri_projected, last_w, draw_color, canvas,
              presented, frames, last_event, polled>>
meshVars == <<mesh_arg, mesh_ret, warn_ret, size_checks>>
mvVars == <<mv_i, mv_o, mv_m, mv_i0, mv_called>>
vars == <<mainVars, meshVars, stdout, mvVars>>

----------------------------------------------------------------------------
(* Bounds of the model *)

\* vector components of the multiply_matrix_vector inputs range over -MaxCoord..MaxCoord
MaxCoord == 1
\* longest triangle sequence handed to Mesh::new
MaxTris == 52
\* frames rendered before the model stops the loop
MaxFrames == 2
\* events one poll of the event pump delivers at most
MaxEvents == 2

----------------------------------------------------------------------------
(* f32 arithmetic, as exact extended rationals *)

Sign(n) == IF n > 0 THEN 1 ELSE IF n < 0 THEN -1 ELSE 0

Abs(n) == IF n < 0 THEN -n ELSE n

RECURSIVE GCD(_, _)
GCD(a, b) == IF b = 0 THEN a ELSE GCD(b, a % b)

Norm(n, d) ==
    IF d = 0 THEN [n |-> Sign(n), d |-> 0]
    ELSE LET g == GCD(Abs(n), Abs(d))
             s == Sign(d)
         IN  [n |-> (s * n) \div g, d |-> (s * d) \div g]

R(k) == [n |-> k, d |-> 1]

NaN == [n |-> 0, d |-> 0]

IsFinite(a) == a.d # 0

Add(a, b) ==
    IF a.d = 0 /\ b.d = 0
    THEN (IF a.n = b.n THEN a ELSE NaN)
    ELSE Norm(a.n * b.d + b.n * a.d, a.d * b.d)

Mul(a, b) == Norm(a.n * b.n, a.d * b.d)

Neg(a) == [n |-> -a.n, d |-> a.d]

\* 1/b: 1/0 is +inf, 1/inf is 0
Recip(b) == Norm(b.d, b.n)

Div(a, b) == Mul(a, Recip(b))

\* a != 0.0 (true of NaN and of the infinities)
NonZero(a) == ~(a.d # 0 /\ a.n = 0)

\* a <= b, false when either is NaN
Leq(a, b) ==
    IF a = NaN \/ b = NaN THEN FALSE
    ELSE IF a.d = 0 /\ b.d = 0 THEN a.n <= b.n
    ELSE IF a.d = 0 THEN a.n < 0
    ELSE IF b.d = 0 THEN b.n > 0
    ELSE a.n * b.d <= b.n * a.d

\* `a as i32`: truncation toward zero, saturating, NaN to 0
AsI32(a) ==
    IF a.d = 0
    THEN (IF a.n > 0 THEN 2147483647 ELSE IF a.n < 0 THEN (-2147483647) - 1 ELSE 0)
    ELSE Sign(a.n) * (Abs(a.n) \div a.d)

----------------------------------------------------------------------------
(* Vector3D, Triangle, Matrix *)

Vector3D_new(x, y, z) == [x |-> x, y |-> y, z |-> z]

Vector3D_default == [x |-> R(0), y |-> R(0), z |-> R(0)]

Triangle_new(a, b, c) == [a |-> a, b |-> b, c |-> c]

Triangle_default ==
    [a |-> Vector3D_default, b |-> Vector3D_default, c |-> Vector3D_default]

Triangle_clone(t) == [a |-> t.a, b |-> t.b, c |-> t.c]

Matrix_default == [mat |-> [r \in 0..3 |-> [c \in 0..3 |-> R(0)]]]

----------------------------------------------------------------------------
(* multiply_matrix_vector *)

Sum4(p, q, r, s) == Add(Add(Add(p, q), r), s)

\* column c of the row vector (i.x, i.y, i.z, 1) times m
Column(i, m, c) ==
    Sum4(Mul(i.x, m.mat[0][c]), Mul(i.y, m.mat[1][c]), Mul(i.z, m.mat[2][c]),
         m.mat[3][c])

HomogeneousW(i, m) == Column(i, m, 3)

\* a slip: `+=` for `=` in lines 334-336, so the old contents of o leak in
multiply_matrix_vector_accumulating(i, o, m) ==
    LET x == Add(o.x, Column(i, m, 0))
        y == Add(o.y, Column(i, m, 1))
        z == Add(o.z, Column(i, m, 2))
        w == HomogeneousW(i, m)
    IN  [i |-> i,
         o |-> IF NonZero(w)
               THEN [x |-> Div(x, w), y |-> Div(y, w), z |-> Div(z, w)]
               ELSE [x |-> x, y |-> y, z |-> z]]

\* The referents of i and o after the call (o is also the returned reference).
multiply_matrix_vector(i, o, m) ==
    LET x == Column(i, m, 0)
        y == Column(i, m, 1)
        z == Column(i, m, 2)
        w == HomogeneousW(i, m)
    IN  [i |-> i,
         o |-> IF NonZero(w)
               THEN [x |-> Div(x, w), y |-> Div(y, w), z |-> Div(z, w)]
               ELSE [x |-> x, y |-> y, z |-> z]]

----------------------------------------------------------------------------
(* Mesh *)

None == <<>>

Some(v) == <<v>>

VECTOR_LIMIT == 50

\* a slip: `>=` for `>`
warn_mesh_size_inclusive(mat) ==
    IF Len(mat) >= VECTOR_LIMIT
    THEN Some("Mesh is too big, consider splitting it up")
    ELSE None

warn_mesh_size(mat) ==
    IF Len(mat) > VECTOR_LIMIT
    THEN Some("Mesh is too big, consider splitting it up")
    ELSE None

\* a slip: the size check enforced, the mesh cut down to the limit
Mesh_new_truncating(mat) ==
    [mesh    |-> [mat |-> IF warn_mesh_size(mat) = None THEN mat
                          ELSE SubSeq(mat, 1, VECTOR_LIMIT)],
     checked |-> <<warn_mesh_size(mat)>>,
     printed |-> <<>>]

\* Mesh::new: the Mesh returned, the results of the size checks it made (it
\* drops them), and the lines it printed.
Mesh_new(mat) ==
    [mesh    |-> [mat |-> mat],
     checked |-> <<warn_mesh_size(mat)>>,
     printed |-> <<>>]

----------------------------------------------------------------------------
(* cube.rs *)

V(x, y, z) == Vector3D_new(R(x), R(y), R(z))

\* a slip: one vertex of the last triangle mistyped
mesh_vertices_typo ==
    << <<V(0,0,0), V(0,1,0), V(1,1,0)>>,
       <<V(0,0,0), V(1,1,0), V(1,0,0)>>,
       <<V(1,0,0), V(1,1,0), V(1,1,1)>>,
       <<V(1,0,0), V(1,1,1), V(1,0,1)>>,
       <<V(1,0,1), V(1,1,1), V(0,1,1)>>,
       <<V(1,0,1), V(0,1,1), V(0,0,1)>>,
       <<V(0,0,1), V(0,1,1), V(0,1,0)>>,
       <<V(0,0,1), V(0,1,0), V(0,0,0)>>,
       <<V(0,1,0), V(0,1,1), V(1,1,1)>>,
       <<V(0,1,0), V(1,1,1), V(1,1,0)>>,
       <<V(1,0,1), V(0,0,1), V(0,0,0)>>,
       <<V(1,0,1), V(0,0,0), V(1,0,2)>>
    >>

mesh_vertices ==
    << \* SOUTH
       <<V(0,0,0), V(0,1,0), V(1,1,0)>>,
       <<V(0,0,0), V(1,1,0), V(1,0,0)>>,
       \* EAST
       <<V(1,0,0), V(1,1,0), V(1,1,1)>>,
       <<V(1,0,0), V(1,1,1), V(1,0,1)>>,
       \* NORTH
       <<V(1,0,1), V(1,1,1), V(0,1,1)>>,
       <<V(1,0,1), V(0,1,1), V(0,0,1)>>,
       \* WEST
       <<V(0,0,1), V(0,1,1), V(0,1,0)>>,
       <<V(0,0,1), V(0,1,0), V(0,0,0)>>,
       \* TOP
       <<V(0,1,0), V(0,1,1), V(1,1,1)>>,
       <<V(0,1,0), V(1,1,1), V(1,1,0)>>,
       \* BOTTOM
       <<V(1,0,1), V(0,0,1), V(0,0,0)>>,
       <<V(1,0,1), V(0,0,0), V(1,0,0)>>
    >>

get_cube_mesh ==
    Mesh_new([k \in 1..Len(mesh_vertices) |->
                 Triangle_new(mesh_vertices[k][1], mesh_vertices[k][2],
                              mesh_vertices[k][3])])

----------------------------------------------------------------------------
(* main(): setup *)

\* screen sizes display_bounds(0) may report
ScreenSizes == {<<1200, 900>>, <<1920, 1080>>, <<2560, 1440>>}

field_of_view == 90

near_plane == Norm(1, 10)

far_plane == 1000

\* f32::tan, at the one argument the program gives it: the tangent of 45
\* RADIANS, 1.6197751..., to six decimal places
Tan(x) == CASE x = R(45) -> Norm(1619775, 1000000)

scaling_factor == Div(R(1), Tan(Div(R(field_of_view), R(2))))

\* screen_size.width() as f32 / 1.5
DisplayDim(pixels) == Div(R(pixels), Norm(3, 2))

\* projection_matrix after lines 363-390
BuildProjection(dw, dh) ==
    LET aspect_ratio == Div(dh, dw)
        span == Add(R(far_plane), Neg(near_plane))
        m00 == Mul(aspect_ratio, scaling_factor)
        m22 == Div(R(far_plane), span)
        m32 == Div(Mul(Neg(R(far_plane)), near_plane), span)
        rows == << <<m00,  R(0),           R(0), R(0)>>,
                   <<R(0), scaling_factor, R(0), R(0)>>,
                   <<R(0), R(0),           m22,  R(1)>>,
                   <<R(0), R(0),           m32,  R(0)>> >>
    IN  [mat |-> [r \in 0..3 |-> [c \in 0..3 |-> rows[r + 1][c + 1]]]]

----------------------------------------------------------------------------
(* main(): the body of the loop over cube_mesh.mat.iter_mut() *)

\* a slip: the depth added through the iter_mut reference as well
Translate_in_place(triangle) ==
    LET moved == [a |-> [triangle.a EXCEPT !.z = Add(triangle.a.z, R(3))],
                  b |-> [triangle.b EXCEPT !.z = Add(triangle.b.z, R(3))],
                  c |-> [triangle.c EXCEPT !.z = Add(triangle.c.z, R(3))]]
    IN  [triangle |-> moved, tri_translated |-> moved]

\* a slip: the depth offset left out
Translate_no_depth(triangle) ==
    [triangle |-> triangle, tri_translated |-> Triangle_clone(triangle)]

\* lines 433-438: the triangle the iterator refers to, and its translated clone
Translate(triangle) ==
    LET t == Triangle_clone(triangle)
    IN  [triangle |-> triangle,
         tri_translated |->
            [a |-> [t.a EXCEPT !.z = Add(triangle.a.z, R(3))],
             b |-> [t.b EXCEPT !.z = Add(triangle.b.z, R(3))],
             c |-> [t.c EXCEPT !.z = Add(triangle.c.z, R(3))]]]

\* lines 432, 440-442
Project(tri_translated, m) ==
    LET o == Triangle_default
    IN  [a |-> multiply_matrix_vector(tri_translated.a, o.a, m).o,
         b |-> multiply_matrix_vector(tri_translated.b, o.b, m).o,
         c |-> multiply_matrix_vector(tri_translated.c, o.c, m).o]

\* a slip: the factor 0.5 left out
ViewportVertex_full_scale(v, dw, dh) ==
    [v EXCEPT !.x = Mul(Add(v.x, R(1)), dw),
              !.y = Mul(Add(v.y, R(1)), dh)]

\* lines 445-457, for one vertex
ViewportVertex(v, dw, dh) ==
    [v EXCEPT !.x = Mul(Add(v.x, R(1)), Mul(Norm(1, 2), dw)),
              !.y = Mul(Add(v.y, R(1)), Mul(Norm(1, 2), dh))]

Viewport(t, dw, dh) ==
    [a |-> ViewportVertex(t.a, dw, dh),
     b |-> ViewportVertex(t.b, dw, dh),
     c |-> ViewportVertex(t.c, dw, dh)]

Point_new(x, y) == <<x, y>>

\* a slip: the closing edge drawn to b instead of a
Triangle_draw_open(self) ==
    << <<Point_new(AsI32(self.a.x), AsI32(self.a.y)),
         Point_new(AsI32(self.b.x), AsI32(self.b.y))>>,
       <<Point_new(AsI32(self.b.x), AsI32(self.b.y)),
         Point_new(AsI32(self.c.x), AsI32(self.c.y))>>,
       <<Point_new(AsI32(self.c.x), AsI32(self.c.y)),
         Point_new(AsI32(self.b.x), AsI32(self.b.y))>> >>

\* Triangle::draw: the draw_line requests, in the order they are made
Triangle_draw(self) ==
    << <<Point_new(AsI32(self.a.x), AsI32(self.a.y)),
         Point_new(AsI32(self.b.x), AsI32(self.b.y))>>,
       <<Point_new(AsI32(self.b.x), AsI32(self.b.y)),
         Point_new(AsI32(self.c.x), AsI32(self.c.y))>>,
       <<Point_new(AsI32(self.c.x), AsI32(self.c.y)),
         Point_new(AsI32(self.a.x), AsI32(self.a.y))>> >>

----------------------------------------------------------------------------
(* main(): the render loop *)

Events == {"Quit", "KeyDown_Escape", "KeyDown_A", "KeyUp_Escape", "MouseMotion"}

\* a slip: the keycode pattern left out, any key-down quits
IsQuit_any_key(event) == event \in {"Quit", "KeyDown_Escape", "KeyDown_A"}

\* the match of lines 417-424
IsQuit(event) == event \in {"Quit", "KeyDown_Escape"}

IdleMesh ==
    /\ mesh_arg = <<>>
    /\ mesh_ret = <<>>
    /\ warn_ret = <<>>
    /\ size_checks = <<>>

IdleMul ==
    /\ mv_i = Vector3D_default
    /\ mv_o = Vector3D_default
    /\ mv_m = Matrix_default
    /\ mv_i0 = Vector3D_default
    /\ mv_called = FALSE

IdleMain ==
    /\ pc = "idle"
    /\ screen_size = <<0, 0>>
    /\ display_width = R(0)
    /\ display_height = R(0)
    /\ projection_matrix = Matrix_default
    /\ cube_mesh = [mat |-> <<>>]
    /\ tri_idx = 0
    /\ tri_projected = Triangle_default
    /\ last_w = <<>>
    /\ draw_color = "none"
    /\ canvas = <<>>
    /\ presented = <<>>
    /\ frames = 0
    /\ last_event = "None"
    /\ polled = 0

\* main() up to line 410
Init ==
    /\ screen_size \in ScreenSizes
    /\ display_width = DisplayDim(screen_size[1])
    /\ display_height = DisplayDim(screen_size[2])
    /\ projection_matrix = BuildProjection(display_width, display_height)
    /\ cube_mesh = get_cube_mesh.mesh
    /\ stdout = get_cube_mesh.printed
    /\ pc = "clear"
    /\ tri_idx = 0
    /\ tri_projected = Triangle_default
    /\ last_w = <<>>
    /\ draw_color = "none"
    /\ canvas = <<>>
    /\ presented = <<>>
    /\ frames = 0
    /\ last_event = "None"
    /\ polled = 0
    /\ IdleMesh
    /\ IdleMul

\* lines 413-414
ClearCanvas ==
    /\ pc = "clear"
    /\ frames < MaxFrames
    /\ draw_color' = "black"
    /\ canvas' = <<>>
    /\ polled' = 0
    /\ pc' = "poll"
    /\ UNCHANGED <<screen_size, display_width, display_height, projection_matrix,
                   cube_mesh, tri_idx, tri_projected, last_w, presented, frames,
                   last_event>>
    /\ UNCHANGED <<meshVars, stdout, mvVars>>

\* lines 416-425, one event delivered by poll_iter
PollEvent(event) ==
    /\ pc = "poll"
    /\ polled < MaxEvents
    /\ last_event' = event
    /\ polled' = polled + 1
    /\ pc' = IF IsQuit(event) THEN "done" ELSE "poll"
    /\ UNCHANGED <<screen_size, display_width, display_height, projection_matrix,
                   cube_mesh, tri_idx, tri_projected, last_w, draw_color, canvas,
                   presented, frames>>
    /\ UNCHANGED <<meshVars, stdout, mvVars>>

\* lines 416, 428, 431: the event queue is empty, the loop over the mesh starts
PollEmpty ==
    /\ pc = "poll"
    /\ last_event' = "None"
    /\ draw_color' = "white"
    /\ tri_idx' = 1
    /\ pc' = "draw"
    /\ UNCHANGED <<screen_size, display_width, display_height, projection_matrix,
                   cube_mesh, tri_projected, last_w, canvas, presented, frames,
                   polled>>
    /\ UNCHANGED <<meshVars, stdout, mvVars>>

\* lines 431-460, one iteration
DrawTriangle ==
    /\ pc = "draw"
    /\ tri_idx <= Len(cube_mesh.mat)
    /\ LET tr == Translate(cube_mesh.mat[tri_idx])
           tt == tr.tri_translated
           screen == Viewport(Project(tt, projection_matrix),
                              display_width, display_height)
       IN  /\ cube_mesh' = [cube_mesh EXCEPT !.mat[tri_idx] = tr.triangle]
           /\ last_w' = <<HomogeneousW(tt.a, projection_matrix),
                          HomogeneousW(tt.b, projection_matrix),
                          HomogeneousW(tt.c, projection_matrix)>>
           /\ tri_projected' = screen
           /\ canvas' = canvas \o Triangle_draw(screen)
    /\ tri_idx' = tri_idx + 1
    /\ UNCHANGED <<pc, screen_size, display_width, display_height,
                   projection_matrix, draw_color, presented, frames, last_event,
                   polled>>
    /\ UNCHANGED <<meshVars, stdout, mvVars>>

\* lines 462-463
Present ==
    /\ pc = "draw"
    /\ tri_idx > Len(cube_mesh.mat)
    /\ presented' = canvas
    /\ frames' = frames + 1
    /\ pc' = "clear"
    /\ UNCHANGED <<screen_size, display_width, display_height, projection_matrix,
                   cube_mesh, tri_idx, tri_projected, last_w, draw_color, canvas,
                   last_event, polled>>
    /\ UNCHANGED <<meshVars, stdout, mvVars>>

Next ==
    \/ ClearCanvas
    \/ \E event \in Events : PollEvent(event)
    \/ PollEmpty
    \/ DrawTriangle
    \/ Present

Spec == Init /\ [][Next]_vars

----------------------------------------------------------------------------
(* Mesh::new and Mesh::warn_mesh_size on arbitrary triangle sequences *)

\* n triangles, taken cyclically from the cube's, starting after the k-th
TriangleSeq(n, k) ==
    [j \in 1..n |-> get_cube_mesh.mesh.mat[((j + k) % Len(mesh_vertices)) + 1]]

TriangleSeqs ==
    {TriangleSeq(n, k) : n \in 0..MaxTris, k \in 0..(Len(mesh_vertices) - 1)}

InitMesh ==
    /\ mesh_arg \in TriangleSeqs
    /\ mesh_ret = <<>>
    /\ warn_ret = <<>>
    /\ size_checks = <<>>
    /\ stdout = <<>>
    /\ IdleMain
    /\ IdleMul

CallWarnMeshSize ==
    /\ warn_ret = <<>>
    /\ warn_ret' = <<warn_mesh_size(mesh_arg)>>
    /\ UNCHANGED <<mesh_arg, mesh_ret, size_checks, stdout>>
    /\ UNCHANGED <<mainVars, mvVars>>

CallMeshNew ==
    /\ mesh_ret = <<>>
    /\ LET r == Mesh_new(mesh_arg)
       IN  /\ mesh_ret' = <<r.mesh>>
           /\ size_checks' = r.checked
           /\ stdout' = stdout \o r.printed
    /\ UNCHANGED <<mesh_arg, warn_ret>>
    /\ UNCHANGED <<mainVars, mvVars>>

NextMesh ==
    \/ CallWarnMeshSize
    \/ CallMeshNew

SpecMesh == InitMesh /\ [][NextMesh]_vars

----------------------------------------------------------------------------
(* multiply_matrix_vector on arbitrary vectors and matrices *)

Coords == {R(k) : k \in (-MaxCoord)..MaxCoord}

Vectors == {Vector3D_new(x, y, z) : x \in Coords, y \in Coords, z \in Coords}

MatrixRows ==
    { <<R(0), R(0), R(0), R(0)>>,
      <<R(1), R(0), R(2), R(1)>>,
      <<R(0), R(2), R(0), R(-1)>>,
      <<Norm(1, 2), R(-1), R(3), R(0)>> }

Matrices ==
    {[mat |-> [r \in 0..3 |-> [c \in 0..3 |-> rows[r + 1][c + 1]]]] :
        rows \in [1..4 -> MatrixRows]}

\* what the output vector may hold before the call
OldOutputs == {Vector3D_default, V(5, -7, 9)}

InitMul ==
    /\ mv_i \in Vectors
    /\ mv_o \in OldOutputs
    /\ mv_m \in Matrices
    /\ mv_i0 = mv_i
    /\ mv_called = FALSE
    /\ stdout = <<>>
    /\ IdleMain
    /\ IdleMesh

CallMultiply ==
    /\ ~mv_called
    /\ LET r == multiply_matrix_vector(mv_i, mv_o, mv_m)
       IN  /\ mv_i' = r.i
           /\ mv_o' = r.o
    /\ mv_called' = TRUE
    /\ UNCHANGED <<mv_m, mv_i0>>
    /\ UNCHANGED <<mainVars, meshVars, stdout>>

NextMul == CallMultiply

SpecMul == InitMul /\ [][NextMul]_vars

----------------------------------------------------------------------------
(* Properties *)

Vertices(tri) == {tri.a, tri.b, tri.c}

\* the sums of claim C1, written out entry by entry
C1_X == Add(Add(Add(Mul(mv_i0.x, mv_m.mat[0][0]), Mul(mv_i0.y, mv_m.mat[1][0])),
                Mul(mv_i0.z, mv_m.mat[2][0])), mv_m.mat[3][0])
C1_Y == Add(Add(Add(Mul(mv_i0.x, mv_m.mat[0][1]), Mul(mv_i0.y, mv_m.mat[1][1])),
                Mul(mv_i0.z, mv_m.mat[2][1])), mv_m.mat[3][1])
C1_Z == Add(Add(Add(Mul(mv_i0.x, mv_m.mat[0][2]), Mul(mv_i0.y, mv_m.mat[1][2])),
                Mul(mv_i0.z, mv_m.mat[2][2])), mv_m.mat[3][2])
C1_W == Add(Add(Add(Mul(mv_i0.x, mv_m.mat[0][3]), Mul(mv_i0.y, mv_m.mat[1][3])),
                Mul(mv_i0.z, mv_m.mat[2][3])), mv_m.mat[3][3])

\* C1: after multiply_matrix_vector(i, o, m), o holds (x', y', z') divided by w
\* when w != 0 (stated as o * w = (x', y', z')) and (x', y', z') itself when
\* w = 0, whatever o held before; every component is a finite number; i is
\* unchanged.
C1_MultiplyMatrixVector ==
    mv_called =>
        /\ mv_i = mv_i0
        /\ IsFinite(mv_o.x) /\ IsFinite(mv_o.y) /\ IsFinite(mv_o.z)
        /\ IF C1_W # R(0)
           THEN /\ Mul(mv_o.x, C1_W) = C1_X
                /\ Mul(mv_o.y, C1_W) = C1_Y
                /\ Mul(mv_o.z, C1_W) = C1_Z
           ELSE mv_o = [x |-> C1_X, y |-> C1_Y, z |-> C1_Z]

\* the call returned with w = 0 and passed a non-zero vector through undivided
C1_Witness ==
    /\ mv_called
    /\ C1_W = R(0)
    /\ mv_o.x # R(0) /\ mv_o.y # R(0) /\ mv_o.z # R(0)
    /\ mv_m.mat[2][3] # R(0)

Corners == {V(x, y, z) : x \in {0, 1}, y \in {0, 1}, z \in {0, 1}}

MeshVertices(mesh) == UNION {Vertices(mesh.mat[k]) : k \in 1..Len(mesh.mat)}

\* C2: the cube mesh has exactly 12 triangles and the set of their vertex
\* positions is exactly the set of the 8 corners of the unit cube.
C2_UnitCube ==
    /\ Len(cube_mesh.mat) = 12
    /\ MeshVertices(cube_mesh) = Corners
    /\ Cardinality(MeshVertices(cube_mesh)) = 8

\* the loop runs on the mesh get_cube_mesh built, the far corner among its vertices
C2_Witness ==
    /\ pc = "poll"
    /\ Len(cube_mesh.mat) = 12
    /\ V(1, 1, 1) \in MeshVertices(cube_mesh)

\* the screen-space triangle of the k-th triangle of the mesh
ScreenTriangle(k) ==
    Viewport(Project(Translate(cube_mesh.mat[k]).tri_translated, projection_matrix),
             display_width, display_height)

Pixel(v) == <<AsI32(v.x), AsI32(v.y)>>

\* the edges a->b, b->c, c->a of a triangle, in pixels
Edges(t) == << <<Pixel(t.a), Pixel(t.b)>>,
               <<Pixel(t.b), Pixel(t.c)>>,
               <<Pixel(t.c), Pixel(t.a)>> >>

\* the requests of the first n triangles, in mesh order
EdgesOfFirst(n) ==
    [j \in 1..(3 * n) |-> Edges(ScreenTriangle(((j - 1) \div 3) + 1))[((j - 1) % 3) + 1]]

\* C3: the draw requests of a frame are, triangle by triangle in mesh order,
\* the three segments a->b, b->c, c->a, once per triangle; every frame
\* presented holds all 36 of them, issued before its present.
C3_DrawOrder ==
    /\ pc = "draw" => canvas = EdgesOfFirst(tri_idx - 1)
    /\ pc \in {"poll", "done"} => canvas = <<>>
    /\ frames > 0 => /\ Len(presented) = 36
                     /\ presented = EdgesOfFirst(Len(cube_mesh.mat))
    /\ (pc = "clear" /\ frames > 0) => canvas = presented
    /\ frames = 0 => presented = <<>>

\* a second frame is being drawn after a first one was presented
C3_Witness ==
    /\ frames = 1
    /\ Len(presented) = 36
    /\ pc = "draw"
    /\ tri_idx = 5
    /\ Len(canvas) = 12

\* C4: the base mesh and the projection matrix keep the values the setup gave
\* them, whatever the loop has done.
C4_BaseUnchanged ==
    /\ cube_mesh = get_cube_mesh.mesh
    /\ projection_matrix =
           BuildProjection(DisplayDim(screen_size[1]), DisplayDim(screen_size[2]))

\* a whole frame was rendered and the next one has begun drawing
C4_Witness ==
    /\ frames >= 1
    /\ pc = "draw"
    /\ tri_idx > 1
    /\ tri_projected # Triangle_default

\* C5: warn_mesh_size returns a warning exactly when there are more than 50
\* triangles: at 51 a warning, at 50 and at 12 none.
C5_WarnMeshSize ==
    warn_ret # <<>> =>
        /\ (warn_ret[1] # <<>>) <=> (Len(mesh_arg) > 50)
        /\ Len(mesh_arg) = 51 => Len(warn_ret[1]) = 1
        /\ Len(mesh_arg) \in {12, 50} => warn_ret[1] = <<>>

\* warn_mesh_size returned a warning for 51 triangles
C5_Witness ==
    /\ warn_ret # <<>>
    /\ Len(mesh_arg) = 51
    /\ warn_ret[1] # <<>>

\* C6: Mesh::new makes the size check and returns a Mesh holding exactly the
\* triangles it was given, in their order, also beyond the limit of 50.
C6_ConstructionUnaltered ==
    mesh_ret # <<>> =>
        /\ mesh_ret[1].mat = mesh_arg
        /\ Len(size_checks) >= 1

\* a Mesh of 52 triangles was constructed
C6_Witness ==
    /\ mesh_ret # <<>>
    /\ Len(mesh_arg) = 52
    /\ Len(mesh_ret[1].mat) = 52
    /\ size_checks # <<>>

\* C7: constructing a Mesh reports a warning to the console exactly when it
\* has more than 50 triangles.
C7_WarningReported ==
    mesh_ret # <<>> => ((Len(mesh_arg) > 50) <=> (stdout # <<>>))

InView(v, dw, dh) ==
    /\ IsFinite(v.x) /\ IsFinite(v.y) /\ IsFinite(v.z)
    /\ Leq(R(0), v.x) /\ Leq(v.x, dw)
    /\ Leq(R(0), v.y) /\ Leq(v.y, dh)

\* C8: on an 800 x 600 display every vertex the loop has put into screen
\* space is finite and lies in [0, 800] x [0, 600].
C8_InView ==
    (display_width = R(800) /\ display_height = R(600) /\ last_w # <<>>) =>
        \A v \in Vertices(tri_projected) : InView(v, R(800), R(600))

\* on the 800 x 600 display the corner (1, 1, 0), the farthest from the
\* centre of the screen, was put into screen space
C8_Witness ==
    /\ display_width = R(800) /\ display_height = R(600)
    /\ pc = "draw"
    /\ tri_idx > 1
    /\ \E v \in Vertices(tri_projected) : Leq(R(461), v.x) /\ Leq(R(361), v.y)

\* C9: the loop is left only by polling a Quit or Escape key-down event, any
\* other poll result keeps it running; it is left with nothing drawn since the
\* clear, and afterwards nothing is drawn or presented.
C9_ExitOnlyOnQuit ==
    [][/\ (pc # "done" /\ pc' = "done") =>
              /\ pc = "poll"
              /\ last_event' \in {"Quit", "KeyDown_Escape"}
              /\ canvas' = <<>>
       /\ (pc = "poll" /\ last_event' \notin {"Quit", "KeyDown_Escape"}) =>
              pc' \in {"poll", "draw"}
       /\ pc = "done" =>
              /\ pc' = "done"
              /\ canvas' = canvas
              /\ presented' = presented
              /\ frames' = frames
      ]_vars

\* the loop was left on Escape, after a frame and after another event
C9_Witness ==
    /\ pc = "done"
    /\ last_event = "KeyDown_Escape"
    /\ frames >= 1
    /\ polled = 2
    /\ canvas = <<>>

\* C10: column 3 of the projection matrix is (0, 0, 1, 0), so w is the
\* translated z of the vertex, 3 or 4, never zero: every vertex is divided.
C10_WeightNonZero ==
    /\ \A r \in 0..3 : projection_matrix.mat[r][3] = (IF r = 2 THEN R(1) ELSE R(0))
    /\ \A k \in 1..Len(last_w) : last_w[k] \in {R(3), R(4)} /\ NonZero(last_w[k])
    /\ (pc = "draw" /\ tri_idx > 1) =>
           LET t == cube_mesh.mat[tri_idx - 1]
           IN  last_w = <<Add(t.a.z, R(3)), Add(t.b.z, R(3)), Add(t.c.z, R(3))>>

\* a triangle with vertices at both depths went through the projection
C10_Witness ==
    /\ pc = "draw"
    /\ tri_idx > 1
    /\ R(3) \in {last_w[k] : k \in 1..Len(last_w)}
    /\ R(4) \in {last_w[k] : k \in 1..Len(last_w)}

====
